---- MODULE Spec2Model ----
(***************************************************************************)
(* Model of the newsletter-archive ingestion pipeline: the archive         *)
(* paginator (ingest/fetcher.py), the orchestrator (ingest_runner.py) and  *)
(* the archive store (db/schema.py, db/operations.py).                     *)
(***************************************************************************)
EXTENDS Integers, Sequences, FiniteSets, TLC

(* ---------------------------------------------------------------------- *)
(* Bounds of the model                                                     *)
(* ---------------------------------------------------------------------- *)
MaxListing == 2
MaxRuns == 3
MaxHtml == 3
MaxRows == 2
MaxIds == 6
MaxPosts == 2

(* ---------------------------------------------------------------------- *)
(* Program constants and input domains                                     *)
(* ---------------------------------------------------------------------- *)
\* fetcher.py: limit = 12
limit == 12

\* JSON null / Python None / SQL NULL
NULL == "NULL"

\* resolve_base_url(config.NEWSLETTER_SLUG)
base_url == "https://nl.substack.com"

\* post.get("wordcount") is absent
NoHint == 0 - 1

\* Raw listing entries the archive API can return.  The fields are those the
\* pipeline reads: type, slug, canonical_url, title, subtitle, wordcount,
\* reaction_count, comment_count, publishedBylines (the names) and
\* publication (name, hero_text).  html is the markup the source serves for
\* the post at {base_url}/p/{slug}, a sequence of nodes.
EntryA == [type |-> "newsletter", slug |-> "a", canonical_url |-> NULL, title |-> "A",
           subtitle |-> "sa", wordcount |-> 9, reaction_count |-> 2, comment_count |-> 1,
           html |-> <<"<p>w</p>", "w", "<i>w</i>">>,
           bylines |-> <<"K">>, pub_name |-> "N", hero_text |-> NULL]
EntryB == [type |-> "restack", slug |-> "b", canonical_url |-> NULL, title |-> "B",
           subtitle |-> NULL, wordcount |-> NoHint, reaction_count |-> 5, comment_count |-> 0,
           html |-> <<"w">>,
           bylines |-> <<"R">>, pub_name |-> "Other", hero_text |-> "HB"]
EntryC == [type |-> "newsletter", slug |-> "c", canonical_url |-> "https://custom.example/c", title |-> "C",
           subtitle |-> NULL, wordcount |-> 4, reaction_count |-> 1, comment_count |-> 3,
           html |-> <<>>,
           bylines |-> <<>>, pub_name |-> NULL, hero_text |-> "H"]
EntryE == [type |-> "newsletter", slug |-> "e", canonical_url |-> NULL, title |-> NULL,
           subtitle |-> NULL, wordcount |-> NoHint, reaction_count |-> 0, comment_count |-> 0,
           html |-> <<"w", " ", "w">>,
           bylines |-> <<NULL>>, pub_name |-> NULL, hero_text |-> NULL]
Entries == {EntryA, EntryB, EntryC, EntryE}

RECURSIVE SeqsUpTo(_, _)
SeqsUpTo(S, n) ==
  IF n = 0 THEN {<<>>}
  ELSE LET shorter == SeqsUpTo(S, n - 1)
       IN shorter \cup {Append(s, x) : s \in {t \in shorter : Len(t) = n - 1}, x \in S}

Listings == SeqsUpTo(Entries, MaxListing)

Min(a, b) == IF a < b THEN a ELSE b

(* ---------------------------------------------------------------------- *)
(* State                                                                   *)
(* ---------------------------------------------------------------------- *)
VARIABLES
  listing,        \* the source's archive listing, newest first
  newsletter,     \* table newsletter: set of rows
  articles,       \* table articles: sequence of rows in id order
  articles_fts,   \* table articles_fts: set of index entries
  clock,          \* value returned by the last datetime.now()
  pc,             \* position of the ingestion process
  full,           \* args.full of the current run
  offset,         \* fetch_archive: offset
  all_posts,      \* fetch_archive: all_posts
  posts,          \* main: posts
  existing_urls,  \* main: existing_urls
  i,              \* main: index of the next post of the loop (1-based)
  saved,          \* main: saved
  skipped,        \* main: skipped
  failed,         \* main: failed
  exitCode,       \* exit status of the process once it has exited
  runNo,          \* number of runs started
  outcome,        \* how the current (or last) run has ended so far
  prev,           \* summary of the run before the current one
  lastPage,       \* size of the last page retrieved in the current run, or PageError
  tally,          \* one record per listing entry the loop has handled
  startArticles,  \* articles when the current run started
  startNewsletter,\* newsletter when the current run started
  sleeps,         \* time.sleep(1) calls of the loop in the current run
  q               \* the last call of the query layer or of a pure function, with its result

storeVars == <<newsletter, articles, articles_fts>>
archVars == <<offset, all_posts>>
loopVars == <<posts, existing_urls, i, saved, skipped, failed>>
histVars == <<runNo, prev, lastPage, tally, startArticles, startNewsletter>>
vars == <<listing, newsletter, articles, articles_fts,
          clock, pc, full, offset, all_posts, posts, existing_urls, i, saved,
          skipped, failed, exitCode, runNo, outcome, prev, lastPage, tally,
          startArticles, startNewsletter, sleeps, q>>

NoQuery == [op |-> "none"]

NoExit == 0 - 1
PageError == 0 - 1
NoPage == 0 - 2

(* ---------------------------------------------------------------------- *)
(* Pure helpers translated from the source                                 *)
(* ---------------------------------------------------------------------- *)

\* Variant: the loop also stops on a page shorter than the limit
StopPaging_short(page) == Len(page) < limit

\* fetch_archive: `if not posts: break`
StopPaging(page) == Len(page) = 0

\* fetch_archive: [p for p in all_posts if p.get("type") == "newsletter"]
IsNewsletter(p) == p.type = "newsletter"

\* Variant: the type filter is not applied
FilterNewsletter_all(ps) == ps

FilterNewsletter(ps) == SelectSeq(ps, IsNewsletter)

\* parse_post_metadata: canonical_url = post.get("canonical_url") or f"{base_url}/p/{slug}"
PostUrl(post) ==
  IF post.canonical_url # NULL THEN post.canonical_url
  ELSE base_url \o "/p/" \o post.slug

\* parse_post_metadata, restricted to the fields the model carries
parse_post_metadata(post) ==
  [title |-> post.title, subtitle |-> post.subtitle, url |-> PostUrl(post),
   reaction_count |-> post.reaction_count, comment_count |-> post.comment_count,
   word_count_from_api |-> post.wordcount, post_slug |-> post.slug]

\* The markup of a post is a sequence of nodes: the text nodes "w" (a letter)
\* and " ", the line break, a paragraph holding one letter and an inline
\* element holding one letter.
Nodes == {"w", " ", "<br>", "<p>w</p>", "<i>w</i>"}

Whitespace == {" ", "\n"}

\* html_to_text: br.replace_with("\n"); "\n\n" inserted before and after a
\* block element; an inline element contributes its text only
NodeText(node) ==
  CASE node = "<br>" -> <<"\n">>
    [] node = "<p>w</p>" -> <<"\n", "\n", "w", "\n", "\n">>
    [] node = "<i>w</i>" -> <<"w">>
    [] OTHER -> <<node>>

\* html_to_text: soup.get_text()
RECURSIVE get_text(_)
get_text(html) ==
  IF html = <<>> THEN <<>> ELSE NodeText(Head(html)) \o get_text(Tail(html))

\* html_to_text: re.sub(r"[^\S\n]+", " ", text)
RECURSIVE CollapseSpaces(_)
CollapseSpaces(t) ==
  IF Len(t) < 2 THEN t
  ELSE IF t[1] = " " /\ t[2] = " " THEN CollapseSpaces(Tail(t))
  ELSE <<t[1]>> \o CollapseSpaces(Tail(t))

\* html_to_text: re.sub(r"\n{3,}", "\n\n", text)
RECURSIVE CollapseNewlines(_)
CollapseNewlines(t) ==
  IF Len(t) < 3 THEN t
  ELSE IF t[1] = "\n" /\ t[2] = "\n" /\ t[3] = "\n" THEN CollapseNewlines(Tail(t))
  ELSE <<t[1]>> \o CollapseNewlines(Tail(t))

RECURSIVE lstrip(_)
lstrip(t) ==
  IF t # <<>> /\ Head(t) \in Whitespace THEN lstrip(Tail(t)) ELSE t

RECURSIVE rstrip(_)
rstrip(t) ==
  IF t # <<>> /\ t[Len(t)] \in Whitespace THEN rstrip(SubSeq(t, 1, Len(t) - 1)) ELSE t

\* html_to_text: text.strip()
strip(t) == rstrip(lstrip(t))

\* html_to_text: `if not html: return ""`, then extraction and normalisation
html_to_text(html) ==
  IF html = <<>> THEN <<>>
  ELSE strip(CollapseNewlines(CollapseSpaces(get_text(html))))

\* str.split(): the maximal runs of non-whitespace characters, in order
RECURSIVE split(_)
split(t) ==
  IF t = <<>> THEN <<>>
  ELSE IF Head(t) \in Whitespace THEN split(Tail(t))
  ELSE LET rest == split(Tail(t))
       IN IF Len(t) >= 2 /\ t[2] \notin Whitespace
          THEN <<(<<Head(t)>> \o Head(rest))>> \o Tail(rest)
          ELSE <<(<<Head(t)>>)>> \o rest

\* Variant: the word count of the listing is preferred when there is one
word_count_hint(text_content, hint) ==
  IF hint # NoHint THEN hint ELSE Len(split(text_content))

\* main, line 81: len(text_content.split()) if text_content
\*                else (meta["word_count_from_api"] or 0)
word_count(text_content, hint) ==
  IF text_content # <<>> THEN Len(split(text_content))
  ELSE IF hint = NoHint THEN 0 ELSE hint

\* main, lines 84-99: the article record handed to upsert_article
Article(meta, html_content, now) ==
  [title |-> meta.title, subtitle |-> meta.subtitle, url |-> meta.url,
   content_text |-> html_to_text(html_content),
   word_count |-> word_count(html_to_text(html_content), meta.word_count_from_api),
   reaction_count |-> meta.reaction_count, comment_count |-> meta.comment_count,
   fetched_at |-> now]

\* get_article_urls: {row["url"] for row in rows}
get_article_urls(arts) == {arts[k].url : k \in 1..Len(arts)}

\* Variant: the stored URLs are never consulted
ExistingUrls_empty(isFull, arts) == {}

\* main: existing_urls = get_article_urls(conn) if not args.full else set()
ExistingUrls(isFull, arts) == IF isFull THEN {} ELSE get_article_urls(arts)

\* schema: title TEXT NOT NULL, url TEXT UNIQUE NOT NULL
ViolatesConstraint(arts, data) ==
  \/ data.title = NULL
  \/ data.url = NULL
  \/ data.url \in get_article_urls(arts)

\* INSERT INTO articles: id INTEGER PRIMARY KEY AUTOINCREMENT and the columns
InsertedRow(arts, data) ==
  [id |-> Len(arts) + 1, title |-> data.title, subtitle |-> data.subtitle,
   url |-> data.url, content_text |-> data.content_text,
   word_count |-> data.word_count, reaction_count |-> data.reaction_count,
   comment_count |-> data.comment_count, fetched_at |-> data.fetched_at]

\* Variant: the url column is not UNIQUE
upsert_article_nounique(arts, data) ==
  IF data.title = NULL \/ data.url = NULL
  THEN [inserted |-> FALSE, rows |-> arts]
  ELSE [inserted |-> TRUE, rows |-> Append(arts, InsertedRow(arts, data))]

\* Variant: the insert is reported but never committed
upsert_article_nocommit(arts, data) ==
  [inserted |-> ~ViolatesConstraint(arts, data), rows |-> arts]

\* Variant: INSERT OR REPLACE, an existing row is overwritten
upsert_article_replace(arts, data) ==
  IF data.title = NULL \/ data.url = NULL
  THEN [inserted |-> FALSE, rows |-> arts]
  ELSE IF data.url \in get_article_urls(arts)
  THEN [inserted |-> TRUE,
        rows |-> [k \in 1..Len(arts) |->
                    IF arts[k].url = data.url
                    THEN [arts[k] EXCEPT !.title = data.title, !.fetched_at = data.fetched_at]
                    ELSE arts[k]]]
  ELSE [inserted |-> TRUE, rows |-> Append(arts, InsertedRow(arts, data))]

\* upsert_article: INSERT ...; commit; return True / except IntegrityError: return False
upsert_article(arts, data) ==
  IF ViolatesConstraint(arts, data)
  THEN [inserted |-> FALSE, rows |-> arts]
  ELSE [inserted |-> TRUE, rows |-> Append(arts, InsertedRow(arts, data))]

\* Variant: no trigger maintains the index
articles_ai_absent(fts, before, after) == fts

\* trigger articles_ai: AFTER INSERT ON articles, insert the index entry
articles_ai(fts, before, after) ==
  fts \cup {[rowid |-> after[k].id, title |-> after[k].title,
              subtitle |-> after[k].subtitle, content_text |-> after[k].content_text] :
              k \in (Len(before) + 1)..Len(after)}

\* Variant: a plain INSERT with the next free id
upsert_newsletter_insert(nl, data) ==
  nl \cup
    {[id |-> Cardinality(nl) + 1, name |-> data.name, slug |-> data.slug, url |-> data.url,
      description |-> data.description, author |-> data.author,
      last_fetched |-> data.last_fetched]}

\* upsert_newsletter: INSERT (id = 1, ...) ON CONFLICT(id) DO UPDATE SET ...
upsert_newsletter(nl, data) ==
  {r \in nl : r.id # 1} \cup
    {[id |-> 1, name |-> data.name, slug |-> data.slug, url |-> data.url,
      description |-> data.description, author |-> data.author,
      last_fetched |-> data.last_fetched]}

\* extract_newsletter_metadata: host.split(".")[0] of base_url
slug == "nl"

\* Python truthiness of an optional string
Truthy(v) == v # NULL /\ v # ""

\* extract_newsletter_metadata, lines 75-80: the first post with a non-empty
\* publishedBylines gives bylines[0].get("name"), then break
RECURSIVE FirstByline(_)
FirstByline(ps) ==
  IF ps = <<>> THEN NULL
  ELSE IF Head(ps).bylines # <<>> THEN Head(ps).bylines[1]
  ELSE FirstByline(Tail(ps))

\* extract_newsletter_metadata, lines 83-88: the first truthy publication name,
\* the slug when there is none
RECURSIVE FirstPubName(_)
FirstPubName(ps) ==
  IF ps = <<>> THEN slug
  ELSE IF Truthy(Head(ps).pub_name) THEN Head(ps).pub_name
  ELSE FirstPubName(Tail(ps))

\* extract_newsletter_metadata, lines 90-95: the first truthy hero_text
RECURSIVE FirstHeroText(_)
FirstHeroText(ps) ==
  IF ps = <<>> THEN NULL
  ELSE IF Truthy(Head(ps).hero_text) THEN Head(ps).hero_text
  ELSE FirstHeroText(Tail(ps))

extract_newsletter_metadata(url, ps) ==
  [name |-> FirstPubName(ps), slug |-> slug, url |-> url,
   description |-> FirstHeroText(ps), author |-> FirstByline(ps),
   last_fetched |-> NULL]

\* Variant: the timestamp update is lost
update_last_fetched_lost(nl, now) == nl

\* update_last_fetched: UPDATE newsletter SET last_fetched = now WHERE id = 1
update_last_fetched(nl, now) ==
  {IF r.id = 1 THEN [r EXCEPT !.last_fetched = now] ELSE r : r \in nl}

\* Variant: post failures make the run exit non-zero
FinalExit_failures(nFailed) == IF nFailed > 0 THEN 1 ELSE 0

\* main: the process returns from main() normally
FinalExit(nFailed) == 0

\* datetime.now(): the clock is read at three places of a run (line 47, line
\* 98 and update_last_fetched); its reading advances from one place to the
\* next and from one run to the next.
Now(run, place) == 3 * (run - 1) + place

\* The page the source serves at an offset: k entries of the listing
ServedPage(off, k) == SubSeq(listing, off + 1, off + k)

Remaining(off) == IF Len(listing) > off THEN Len(listing) - off ELSE 0

(* ---------------------------------------------------------------------- *)
(* The query layer                                                         *)
(* ---------------------------------------------------------------------- *)

\* get_top_articles: allowed_metrics
allowed_metrics == {"reaction_count", "comment_count", "word_count"}

\* The value of a column of a row, ORDER BY {metric}
MetricOf(row, metric) ==
  CASE metric = "reaction_count" -> row.reaction_count
    [] metric = "comment_count" -> row.comment_count
    [] OTHER -> row.word_count

\* ORDER BY {metric} DESC over the rows in rowid order: a row goes behind
\* the rows that are not smaller
RECURSIVE InsertDesc(_, _, _)
InsertDesc(sorted, row, metric) ==
  IF sorted = <<>> THEN <<row>>
  ELSE IF MetricOf(Head(sorted), metric) >= MetricOf(row, metric)
  THEN <<Head(sorted)>> \o InsertDesc(Tail(sorted), row, metric)
  ELSE <<row>> \o sorted

RECURSIVE OrderByDesc(_, _)
OrderByDesc(arts, metric) ==
  IF arts = <<>> THEN <<>>
  ELSE InsertDesc(OrderByDesc(SubSeq(arts, 1, Len(arts) - 1), metric),
                  arts[Len(arts)], metric)

\* SELECT id, title, url, ..., word_count, reaction_count, comment_count
TopColumns(row) ==
  [id |-> row.id, title |-> row.title, url |-> row.url, word_count |-> row.word_count,
   reaction_count |-> row.reaction_count, comment_count |-> row.comment_count]

\* Variant: a metric that is not allowed ranks by word_count
get_top_articles_other(arts, metric, lim) ==
  LET m == IF metric \in allowed_metrics THEN metric ELSE "word_count"
      sorted == OrderByDesc(arts, m)
  IN [k \in 1..Min(lim, Len(sorted)) |-> TopColumns(sorted[k])]

\* get_top_articles: `if metric not in allowed_metrics: metric = "reaction_count"`,
\* ORDER BY {metric} DESC LIMIT ?
get_top_articles(arts, metric, lim) ==
  LET m == IF metric \in allowed_metrics THEN metric ELSE "reaction_count"
      sorted == OrderByDesc(arts, m)
  IN [k \in 1..Min(lim, Len(sorted)) |-> TopColumns(sorted[k])]

\* get_articles_batch: ids[:5]
BatchCap == 5

\* Variant: the whole list of ids is used
get_articles_batch_all(arts, ids) ==
  SelectSeq(arts, LAMBDA row : \E j \in 1..Len(ids) : ids[j] = row.id)

\* get_articles_batch: ids = ids[:5]; SELECT * FROM articles WHERE id IN (...)
get_articles_batch(arts, ids) ==
  LET first == SubSeq(ids, 1, Min(BatchCap, Len(ids)))
  IN SelectSeq(arts, LAMBDA row : \E j \in 1..Len(first) : first[j] = row.id)

(* ---------------------------------------------------------------------- *)
(* Initial state: empty store (init_db on a new file), no run started      *)
(* ---------------------------------------------------------------------- *)
\* init_db on a new file: the tables exist and are empty
EmptyStore ==
  /\ newsletter = {}
  /\ articles = <<>>
  /\ articles_fts = {}

\* No ingestion process has been started and no query has been made
NoRun ==
  /\ clock = 0
  /\ pc = "idle"
  /\ full = FALSE
  /\ offset = 0
  /\ all_posts = <<>>
  /\ posts = <<>>
  /\ existing_urls = {}
  /\ i = 1
  /\ saved = 0
  /\ skipped = 0
  /\ failed = 0
  /\ exitCode = NoExit
  /\ runNo = 0
  /\ outcome = "none"
  /\ prev = [full |-> FALSE, outcome |-> "none", failSlugs |-> {}]
  /\ lastPage = NoPage
  /\ tally = <<>>
  /\ startArticles = <<>>
  /\ startNewsletter = {}
  /\ sleeps = 0
  /\ q = NoQuery

Init ==
  /\ listing \in Listings
  /\ EmptyStore
  /\ NoRun

(* ---------------------------------------------------------------------- *)
(* The environment                                                         *)
(* ---------------------------------------------------------------------- *)

\* The process is killed while running: its memory is gone, committed writes
\* stay in the store.
Crash ==
  /\ pc \in {"archive", "fetched", "loop"}
  /\ pc' = "idle"
  /\ outcome' = "crashed"
  /\ offset' = 0
  /\ all_posts' = <<>>
  /\ posts' = <<>>
  /\ existing_urls' = {}
  /\ i' = 1
  /\ saved' = 0
  /\ skipped' = 0
  /\ failed' = 0
  /\ lastPage' = NoPage
  /\ tally' = <<>>
  /\ sleeps' = 0
  /\ UNCHANGED <<listing, storeVars, clock, full, exitCode, runNo, prev,
                 startArticles, startNewsletter, q>>

(* ---------------------------------------------------------------------- *)
(* ingest_runner.main                                                      *)
(* ---------------------------------------------------------------------- *)

\* main, lines 20-29 and the entry of fetch_archive: parse args, init_db
\* (CREATE ... IF NOT EXISTS leaves existing rows alone), offset = 0.
StartRun ==
  /\ pc \in {"idle", "exited"}
  /\ runNo < MaxRuns
  /\ \E f \in BOOLEAN : full' = f
  /\ pc' = "archive"
  /\ offset' = 0
  /\ all_posts' = <<>>
  /\ posts' = <<>>
  /\ existing_urls' = {}
  /\ i' = 1
  /\ saved' = 0
  /\ skipped' = 0
  /\ failed' = 0
  /\ exitCode' = NoExit
  /\ runNo' = runNo + 1
  /\ outcome' = "none"
  /\ prev' = [full |-> full, outcome |-> outcome,
               failSlugs |-> {tally[t].slug : t \in {u \in 1..Len(tally) : tally[u].fetch = "fail"}}]
  /\ lastPage' = NoPage
  /\ tally' = <<>>
  /\ startArticles' = articles
  /\ startNewsletter' = newsletter
  /\ sleeps' = 0
  /\ UNCHANGED <<listing, storeVars, clock, q>>

\* Variant: the offset advances by the page size requested
NextOffset_limit(off, page) == off + limit

\* fetch_archive: offset += len(posts)
NextOffset(off, page) == off + Len(page)

\* fetch_archive: the reaction to a page that was retrieved
OnPage(page) ==
  IF StopPaging(page)
  THEN /\ posts' = FilterNewsletter(all_posts)
       /\ pc' = "fetched"
       /\ UNCHANGED archVars
  ELSE /\ all_posts' = all_posts \o page
       /\ offset' = NextOffset(offset, page)
       /\ pc' = "archive"
       /\ UNCHANGED posts

\* fetch_archive, one iteration of `while True` whose request succeeds: the
\* source serves the next entries of its listing, any number up to the limit
FetchPage ==
  /\ pc = "archive"
  /\ \E k \in (IF Remaining(offset) = 0 THEN {0} ELSE 1..Min(limit, Remaining(offset))) :
       /\ lastPage' = k
       /\ OnPage(ServedPage(offset, k))
  /\ UNCHANGED <<listing, storeVars, clock, full, existing_urls, i, saved,
                 skipped, failed, exitCode, outcome, runNo, prev, tally,
                 startArticles, startNewsletter, sleeps, q>>

\* Variant: a failed page request ends the paging with the entries so far
OnPageError_partial ==
  /\ posts' = SelectSeq(all_posts, IsNewsletter)
  /\ pc' = "fetched"
  /\ UNCHANGED <<storeVars, clock, archVars, existing_urls, i, saved, skipped,
                 failed, tally, exitCode, outcome, sleeps>>

\* fetch_archive: raise_for_status / network error; main: except -> sys.exit(1)
OnPageError ==
  /\ pc' = "exited"
  /\ exitCode' = 1
  /\ outcome' = "failed"
  /\ UNCHANGED <<storeVars, clock, archVars, loopVars, tally, sleeps>>

FetchPageFails ==
  /\ pc = "archive"
  /\ lastPage' = PageError
  /\ OnPageError
  /\ UNCHANGED <<listing, full, runNo, prev, startArticles, startNewsletter, q>>

\* main, lines 39-41: `if not posts: return`
NoArticles ==
  /\ pc = "fetched"
  /\ posts = <<>>
  /\ pc' = "exited"
  /\ exitCode' = 0
  /\ outcome' = "empty"
  /\ UNCHANGED <<listing, storeVars, clock, full, archVars, loopVars, histVars, sleeps, q>>

\* Variant: the loop is entered without the upsert of the newsletter row
SaveNewsletter_noupsert ==
  /\ pc = "fetched"
  /\ posts # <<>>
  /\ clock' = Now(runNo, 1)
  /\ existing_urls' = ExistingUrls(full, articles)
  /\ saved' = 0
  /\ skipped' = 0
  /\ failed' = 0
  /\ i' = 1
  /\ pc' = "loop"
  /\ UNCHANGED <<listing, newsletter, articles, articles_fts, full, archVars, posts,
                 exitCode, outcome, histVars, sleeps, q>>

\* main, lines 43-57: extract_newsletter_metadata, upsert_newsletter,
\* existing_urls, counters
SaveNewsletter ==
  /\ pc = "fetched"
  /\ posts # <<>>
  /\ clock' = Now(runNo, 1)
  /\ newsletter' = upsert_newsletter(newsletter,
                      [extract_newsletter_metadata(base_url, posts)
                         EXCEPT !.last_fetched = Now(runNo, 1)])
  /\ existing_urls' = ExistingUrls(full, articles)
  /\ saved' = 0
  /\ skipped' = 0
  /\ failed' = 0
  /\ i' = 1
  /\ pc' = "loop"
  /\ UNCHANGED <<listing, articles, articles_fts, full, archVars, posts,
                 exitCode, outcome, histVars, sleeps, q>>

\* What the loop body did with posts[i], read off the step itself.
Record(fetch) ==
  tally' = Append(tally,
    [idx |-> i,
     type |-> posts[i].type,
     slug |-> posts[i].slug,
     url |-> PostUrl(posts[i]),
     fetch |-> fetch,
     stored |-> PostUrl(posts[i]) \in get_article_urls(articles),
     added |-> Len(articles') - Len(articles),
     kept |-> /\ Len(articles') >= Len(articles)
              /\ SubSeq(articles', 1, Len(articles)) = articles,
     wrote |-> storeVars' # storeVars,
     saved |-> saved' - saved,
     skipped |-> skipped' - skipped,
     failed |-> failed' - failed,
     slept |-> sleeps' - sleeps,
     next |-> IF pc' = "loop" THEN i' ELSE 0])

\* main, line 67: `if meta["url"] in existing_urls`
AlreadyExists(meta, existing) == meta.url \in existing

\* main, lines 67-70: already in DB, skipped
OnSkip ==
  /\ skipped' = skipped + 1
  /\ i' = i + 1
  /\ pc' = "loop"
  /\ UNCHANGED <<storeVars, clock, posts, existing_urls, saved, failed, exitCode,
                 outcome, sleeps>>

SkipPost ==
  /\ pc = "loop"
  /\ i <= Len(posts)
  /\ AlreadyExists(parse_post_metadata(posts[i]), existing_urls)
  /\ OnSkip
  /\ Record("none")
  /\ UNCHANGED <<listing, full, archVars, runNo, prev, lastPage,
                 startArticles, startNewsletter, q>>

\* Variant: a failed content fetch aborts the run
OnContentFailed_abort ==
  /\ failed' = failed + 1
  /\ pc' = "exited"
  /\ exitCode' = 1
  /\ outcome' = "failed"
  /\ UNCHANGED <<storeVars, clock, posts, existing_urls, i, saved, skipped, sleeps>>

\* main, lines 74-77: fetch_post_content returned None
OnContentFailed ==
  /\ failed' = failed + 1
  /\ i' = i + 1
  /\ pc' = "loop"
  /\ UNCHANGED <<storeVars, clock, posts, existing_urls, saved, skipped, exitCode,
                 outcome, sleeps>>

\* fetch_post_content: the request or the parsing raises, None is returned
FailPost ==
  /\ pc = "loop"
  /\ i <= Len(posts)
  /\ ~AlreadyExists(parse_post_metadata(posts[i]), existing_urls)
  /\ OnContentFailed
  /\ Record("fail")
  /\ UNCHANGED <<listing, full, archVars, runNo, prev, lastPage,
                 startArticles, startNewsletter, q>>

\* Variant: every post whose content was fetched is counted as saved
OnContent_allsaved(meta, html_content) ==
  LET res == upsert_article(articles, Article(meta, html_content, Now(runNo, 2)))
  IN /\ clock' = Now(runNo, 2)
     /\ articles' = res.rows
     /\ articles_fts' = articles_ai(articles_fts, articles, res.rows)
     /\ saved' = saved + 1
     /\ sleeps' = sleeps + 1
     /\ i' = i + 1
     /\ pc' = "loop"
     /\ UNCHANGED <<newsletter, posts, existing_urls, skipped, failed, exitCode, outcome>>

\* main, lines 79-109: build the article record, upsert_article, count
OnContent(meta, html_content) ==
  LET res == upsert_article(articles, Article(meta, html_content, Now(runNo, 2)))
  IN /\ clock' = Now(runNo, 2)
     /\ articles' = res.rows
     /\ articles_fts' = articles_ai(articles_fts, articles, res.rows)
     /\ IF res.inserted
        THEN saved' = saved + 1 /\ UNCHANGED skipped
        ELSE skipped' = skipped + 1 /\ UNCHANGED saved
     /\ sleeps' = sleeps + 1
     /\ i' = i + 1
     /\ pc' = "loop"
     /\ UNCHANGED <<newsletter, posts, existing_urls, failed, exitCode, outcome>>

\* fetch_post_content returns the markup
SavePost ==
  /\ pc = "loop"
  /\ i <= Len(posts)
  /\ ~AlreadyExists(parse_post_metadata(posts[i]), existing_urls)
  /\ OnContent(parse_post_metadata(posts[i]), posts[i].html)
  /\ Record("ok")
  /\ UNCHANGED <<listing, full, archVars, runNo, prev, lastPage,
                 startArticles, startNewsletter, q>>

\* main, lines 111-114: update_last_fetched, close, summary, return
Finalize ==
  /\ pc = "loop"
  /\ i > Len(posts)
  /\ clock' = Now(runNo, 3)
  /\ newsletter' = update_last_fetched(newsletter, Now(runNo, 3))
  /\ pc' = "exited"
  /\ exitCode' = FinalExit(failed)
  /\ outcome' = "done"
  /\ UNCHANGED <<listing, articles, articles_fts, full, archVars, loopVars, histVars,
                 sleeps, q>>

Next ==
  \/ Crash
  \/ StartRun
  \/ FetchPage
  \/ FetchPageFails
  \/ NoArticles
  \/ SaveNewsletter
  \/ SkipPost
  \/ FailPost
  \/ SavePost
  \/ Finalize

Spec == Init /\ [][Next]_vars

(* ---------------------------------------------------------------------- *)
(* One run over one post, for every markup and every word count hint       *)
(* ---------------------------------------------------------------------- *)
Htmls == SeqsUpTo(Nodes, MaxHtml)

\* post.get("wordcount"): absent, zero or a number
Hints == {NoHint, 0, 2, 9}

InitContent ==
  /\ listing \in {<<[EntryA EXCEPT !.html = h, !.wordcount = w]>> : h \in Htmls, w \in Hints}
  /\ EmptyStore
  /\ NoRun

StartFirstRun == runNo = 0 /\ StartRun

NextContent ==
  \/ StartFirstRun
  \/ FetchPage
  \/ SaveNewsletter
  \/ SavePost
  \/ Finalize

SpecContent == InitContent /\ [][NextContent]_vars

(* ---------------------------------------------------------------------- *)
(* Queries against a store that earlier runs have filled                   *)
(* ---------------------------------------------------------------------- *)

\* The counts an Article can carry: reaction_count, comment_count, word_count
Counts == {<<r, c, w>> : r \in {0, 1}, c \in {0, 1}, w \in {0, 1}}

\* The articles table after the posts with these counts were saved in order
RECURSIVE StoreOf(_)
StoreOf(cs) ==
  IF cs = <<>> THEN <<>>
  ELSE LET before == StoreOf(SubSeq(cs, 1, Len(cs) - 1))
           c == cs[Len(cs)]
       IN upsert_article(before,
            [title |-> "T", subtitle |-> NULL,
             url |-> base_url \o "/p/" \o ToString(Len(cs)),
             content_text |-> <<>>, word_count |-> c[3],
             reaction_count |-> c[1], comment_count |-> c[2],
             fetched_at |-> Now(1, 2)]).rows

\* Stores of up to MaxRows articles with any counts, and stores of up to
\* MaxIds articles whose counts follow the id
Stores ==
  {StoreOf(cs) : cs \in SeqsUpTo(Counts, MaxRows)} \cup
  {StoreOf([k \in 1..n |-> <<k % 2, 0, k>>]) : n \in 0..MaxIds}

\* metric is any string
Metrics == allowed_metrics \cup {"published_date", ""}

Limits == 0..(MaxRows + 1)

\* The id lists a caller passes: any list over two ids, and the first ids
\* counted up or down
IdLists ==
  SeqsUpTo({1, 2}, MaxIds) \cup
  {[k \in 1..n |-> k] : n \in 0..MaxIds} \cup
  {[k \in 1..n |-> MaxIds + 1 - k] : n \in 0..MaxIds}

InitQuery ==
  /\ listing = <<>>
  /\ articles \in Stores
  /\ articles_fts = articles_ai({}, <<>>, articles)
  /\ newsletter = update_last_fetched(
                     upsert_newsletter({}, extract_newsletter_metadata(base_url, <<>>)),
                     Now(1, 3))
  /\ NoRun

\* server.get_top_articles -> ops.get_top_articles, on a connection of its own;
\* q keeps one call
QueryTop ==
  /\ q = NoQuery
  /\ \E metric \in Metrics, lim \in Limits :
       q' = [op |-> "get_top_articles", metric |-> metric, limit |-> lim,
             result |-> get_top_articles(articles, metric, lim)]
  /\ UNCHANGED <<listing, storeVars, clock, pc, full, archVars, loopVars,
                 exitCode, outcome, histVars, sleeps>>

\* server.get_articles_batch -> ops.get_articles_batch, on a connection of its
\* own; q keeps one call
QueryBatch ==
  /\ q = NoQuery
  /\ \E ids \in IdLists :
       q' = [op |-> "get_articles_batch", ids |-> ids,
             result |-> get_articles_batch(articles, ids)]
  /\ UNCHANGED <<listing, storeVars, clock, pc, full, archVars, loopVars,
                 exitCode, outcome, histVars, sleeps>>

NextQuery ==
  \/ QueryTop
  \/ QueryBatch

SpecQuery == InitQuery /\ [][NextQuery]_vars

(* ---------------------------------------------------------------------- *)
(* extract_newsletter_metadata over the archives the source can return     *)
(* ---------------------------------------------------------------------- *)

\* publishedBylines of an entry: none, one byline without a name, one or two
\* bylines with names
BylineLists == {<<>>, <<NULL>>, <<"K">>, <<"J">>, <<"", "K">>}

MetaEntries ==
  {[EntryA EXCEPT !.bylines = b, !.pub_name = n, !.hero_text = h] :
     b \in BylineLists, n \in {"", "N", "M"}, h \in {NULL, "H", "G"}}

InitMeta ==
  /\ listing \in SeqsUpTo(MetaEntries, MaxPosts)
  /\ EmptyStore
  /\ NoRun

\* main, line 46: extract_newsletter_metadata(base_url, posts) on what
\* fetch_archive returns for the listing
ExtractMeta ==
  /\ q = NoQuery
  /\ q' = [op |-> "extract_newsletter_metadata",
           posts |-> FilterNewsletter(listing),
           result |-> extract_newsletter_metadata(base_url, FilterNewsletter(listing))]
  /\ UNCHANGED <<listing, storeVars, clock, pc, full, archVars, loopVars,
                 exitCode, outcome, histVars, sleeps>>

NextMeta == ExtractMeta

SpecMeta == InitMeta /\ [][NextMeta]_vars

(* ---------------------------------------------------------------------- *)
(* Vocabulary of the properties                                            *)
(* ---------------------------------------------------------------------- *)
UrlsOf(arts) == {arts[k].url : k \in 1..Len(arts)}
Tallied == 1..Len(tally)
InRun == runNo > 0 /\ outcome # "crashed"
ArchiveReturned ==
  \/ pc \in {"fetched", "loop"}
  \/ pc = "exited" /\ outcome \in {"empty", "done"}
LastFetchedIsNow == \E r \in newsletter : r.id = 1 /\ r.last_fetched = clock

(* ---------------------------------------------------------------------- *)
(* C1                                                                      *)
(* ---------------------------------------------------------------------- *)
\* C1: fetch_archive leaves its paging loop normally exactly when the last
\* page retrieved had zero entries; after a non-empty page, however short of
\* the limit, the loop is still issuing page requests.
C1_StopsOnlyOnEmptyPage ==
  InRun =>
    /\ ArchiveReturned <=> lastPage = 0
    /\ lastPage > 0 => pc = "archive"
    /\ pc = "archive" => lastPage = NoPage \/ lastPage > 0

C1_Witness ==
  /\ ArchiveReturned
  /\ lastPage = 0
  /\ all_posts # <<>>
  /\ Len(all_posts) < limit

(* ---------------------------------------------------------------------- *)
(* C2                                                                      *)
(* ---------------------------------------------------------------------- *)
\* The source answers the current run as it answered the previous one: no
\* post whose content could not be fetched then is fetched now.
SourceUnchanged ==
  \A t \in Tallied : tally[t].fetch = "ok" => tally[t].slug \notin prev.failSlugs

\* C2: when an incremental run that reached its end is followed by another
\* incremental run against the same listing and the source answers as before,
\* the second run saves nothing and the articles table stays as it was when
\* the second run started.
C2_SecondRunSavesNothing ==
  ( /\ runNo >= 2
    /\ ~full
    /\ ~prev.full
    /\ prev.outcome \in {"done", "empty"}
    /\ outcome # "crashed"
    /\ SourceUnchanged )
  => saved = 0 /\ articles = startArticles

C2_Witness ==
  /\ runNo >= 2
  /\ ~full
  /\ ~prev.full
  /\ prev.outcome = "done"
  /\ prev.failSlugs # {}
  /\ SourceUnchanged
  /\ startArticles # <<>>
  /\ pc = "exited"
  /\ outcome = "done"
  /\ skipped > 0
  /\ failed > 0
  /\ saved = 0

(* ---------------------------------------------------------------------- *)
(* C3                                                                      *)
(* ---------------------------------------------------------------------- *)
\* C3: no two rows of articles share a url; an upsert_article with a stored
\* url reports "not inserted" and leaves every row as it was; with an unseen
\* url it reports "inserted" and adds exactly one row.
C3_InsertIfAbsent ==
  /\ \A j, k \in 1..Len(articles) : articles[j].url = articles[k].url => j = k
  /\ \A t \in Tallied :
       tally[t].fetch = "ok" =>
         /\ tally[t].kept
         /\ IF tally[t].stored
            THEN tally[t].saved = 0 /\ tally[t].added = 0
            ELSE tally[t].saved = 1 /\ tally[t].added = 1

(* ---------------------------------------------------------------------- *)
(* C4                                                                      *)
(* ---------------------------------------------------------------------- *)
\* C4: only entries of type "newsletter" survive fetch_archive, are handled
\* by the loop, are counted, or have an Article row; entries of other types
\* stay in all_posts until the paging is over and are dropped then.
C4_OnlyNewsletterEntries ==
  /\ \A k \in 1..Len(posts) : posts[k].type = "newsletter"
  /\ ArchiveReturned =>
       Len(posts) = Cardinality({k \in 1..Len(all_posts) : all_posts[k].type = "newsletter"})
  /\ pc = "archive" => posts = <<>> /\ all_posts = SubSeq(listing, 1, offset)
  /\ \A t \in Tallied : tally[t].type = "newsletter"
  /\ saved + skipped + failed = Len(tally)
  /\ Len(tally) <= Len(posts)
  /\ \A r \in 1..Len(articles) :
       \E k \in 1..Len(listing) :
         /\ listing[k].type = "newsletter"
         /\ articles[r].url = (IF listing[k].canonical_url # NULL
                               THEN listing[k].canonical_url
                               ELSE base_url \o "/p/" \o listing[k].slug)

C4_Witness ==
  /\ outcome = "done"
  /\ pc = "exited"
  /\ Len(all_posts) > Len(posts)
  /\ saved >= 1
  /\ Len(tally) = Len(posts)

(* ---------------------------------------------------------------------- *)
(* C5                                                                      *)
(* ---------------------------------------------------------------------- *)
\* C5: an entry whose content fetch fails adds one to failed and nothing
\* else, writes nothing to the store, and the loop goes on with the next
\* entry; a later entry whose fetch succeeds is counted as saved or skipped
\* by its insert alone, and a finished run has handled every entry.
C5_FailedFetchDoesNotAbort ==
  /\ \A t \in Tallied :
       tally[t].fetch = "fail" =>
         /\ tally[t].failed = 1
         /\ tally[t].saved = 0
         /\ tally[t].skipped = 0
         /\ tally[t].added = 0
         /\ ~tally[t].wrote
         /\ tally[t].next = tally[t].idx + 1
  /\ \A t \in Tallied :
       tally[t].fetch = "ok" =>
         /\ tally[t].failed = 0
         /\ tally[t].saved = tally[t].added
         /\ tally[t].saved + tally[t].skipped = 1
  /\ failed = Cardinality({t \in Tallied : tally[t].fetch = "fail"})
  /\ (pc = "exited" /\ outcome = "done") => Len(tally) = Len(posts)

C5_Witness ==
  /\ pc = "exited"
  /\ outcome = "done"
  /\ Len(tally) = 2
  /\ tally[1].fetch = "fail"
  /\ tally[2].fetch = "ok"
  /\ tally[2].saved = 1
  /\ failed = 1
  /\ saved = 1
  /\ Len(articles) = Len(startArticles) + 1

(* ---------------------------------------------------------------------- *)
(* C6                                                                      *)
(* ---------------------------------------------------------------------- *)
\* C6: once a page request of a run has failed, the run has exited with
\* code 1 and has written nothing: no entry was handled and newsletter,
\* articles and the index are as they were when the run started.
C6_ArchiveFailureWritesNothing ==
  (runNo > 0 /\ lastPage = PageError) =>
    /\ pc = "exited"
    /\ exitCode = 1
    /\ outcome = "failed"
    /\ posts = <<>>
    /\ tally = <<>>
    /\ articles = startArticles
    /\ newsletter = startNewsletter
    /\ \A e \in articles_fts : e.rowid \in 1..Len(startArticles)

C6_Witness ==
  /\ lastPage = PageError
  /\ pc = "exited"
  /\ all_posts # <<>>
  /\ startArticles # <<>>
  /\ startNewsletter # {}

(* ---------------------------------------------------------------------- *)
(* C7                                                                      *)
(* ---------------------------------------------------------------------- *)
\* C7 as stated: every run whose archive fetch succeeded ends with
\* last_fetched set to the current time, also when no entry is left to
\* process.
C7_AsStated ==
  (pc = "exited" /\ lastPage = 0) => LastFetchedIsNow

\* C7: every run whose archive fetch succeeded with at least one
\* newsletter entry ends by setting last_fetched to the current time,
\* whatever the numbers of saved, skipped and failed posts.
C7_LastFetchedWhenPostsFound ==
  (pc = "exited" /\ lastPage = 0 /\ posts # <<>>) =>
    /\ outcome = "done"
    /\ LastFetchedIsNow
    /\ Cardinality(newsletter) = 1
    /\ \A r \in startNewsletter : r.last_fetched < clock

C7_Witness ==
  /\ pc = "exited"
  /\ outcome = "done"
  /\ failed = Len(posts)
  /\ saved = 0
  /\ skipped = 0
  /\ LastFetchedIsNow
  /\ startNewsletter # {}

(* ---------------------------------------------------------------------- *)
(* C8                                                                      *)
(* ---------------------------------------------------------------------- *)
\* C8: a run that has exited has code 1 when a page request failed and
\* code 0 otherwise, whatever the number of failed posts.
C8_ExitCode ==
  pc = "exited" =>
    /\ exitCode \in {0, 1}
    /\ exitCode # 0 <=> lastPage = PageError

C8_Witness ==
  /\ pc = "exited"
  /\ exitCode = 0
  /\ failed >= 2
  /\ failed = Len(posts)

(* ---------------------------------------------------------------------- *)
(* C9                                                                      *)
(* ---------------------------------------------------------------------- *)
\* C9: in an incremental run existing_urls is the set of urls stored when
\* the run started and is not refreshed during the loop; an entry whose url
\* is in it is counted as skipped with no content request and no store
\* write, and every other entry is content-fetched.
C9_IncrementalSkipsStored ==
  ~full =>
    /\ pc = "loop" => existing_urls = UrlsOf(startArticles)
    /\ \A t \in Tallied :
         IF tally[t].url \in UrlsOf(startArticles)
         THEN /\ tally[t].fetch = "none"
              /\ tally[t].skipped = 1
              /\ tally[t].saved = 0
              /\ tally[t].failed = 0
              /\ ~tally[t].wrote
         ELSE tally[t].fetch # "none"

C9_Witness ==
  /\ ~full
  /\ Len(tally) = 2
  /\ tally[1].url \in UrlsOf(startArticles)
  /\ tally[1].fetch = "none"
  /\ tally[2].url \notin UrlsOf(startArticles)
  /\ tally[2].fetch = "ok"

(* ---------------------------------------------------------------------- *)
(* C10                                                                     *)
(* ---------------------------------------------------------------------- *)
\* C10: in a full run existing_urls is empty and content is requested for
\* every entry handled; when the url is already stored the insert adds
\* nothing, every stored row stays as it was, and the entry is counted as
\* skipped, not saved and not failed.
C10_FullRunNeverOverwrites ==
  (full /\ runNo > 0) =>
    /\ existing_urls = {}
    /\ \A t \in Tallied :
         /\ tally[t].fetch # "none"
         /\ (tally[t].fetch = "ok" /\ tally[t].stored) =>
              /\ tally[t].skipped = 1
              /\ tally[t].saved = 0
              /\ tally[t].failed = 0
              /\ tally[t].added = 0
              /\ tally[t].kept
    /\ Len(articles) >= Len(startArticles)
    /\ \A k \in 1..Len(startArticles) : articles[k] = startArticles[k]
    /\ (pc = "exited" /\ outcome = "done") => Len(tally) = Len(posts)

C10_Witness ==
  /\ full
  /\ pc = "exited"
  /\ outcome = "done"
  /\ \E t \in Tallied :
       /\ tally[t].url \in UrlsOf(startArticles)
       /\ tally[t].fetch = "ok"
       /\ tally[t].stored
       /\ tally[t].skipped = 1
  /\ articles = startArticles


(* ---------------------------------------------------------------------- *)
(* C11                                                                     *)
(* ---------------------------------------------------------------------- *)
IsPrefix(a, b) == Len(a) <= Len(b) /\ SubSeq(b, 1, Len(a)) = a

RowsFor(url) == {k \in 1..Len(articles) : articles[k].url = url}

\* C11: in the incremental run that follows an interrupted run, the rows the
\* interrupted run committed are still stored, their entries are neither
\* fetched nor inserted again, and once the run has reached its end with
\* every content fetch successful, every newsletter-type entry of the
\* listing has exactly one Article row.
C11_ResumeCompletesArchive ==
  ( /\ runNo >= 2
    /\ prev.outcome = "crashed"
    /\ ~full
    /\ outcome # "crashed" ) =>
    /\ IsPrefix(startArticles, articles)
    /\ \A t \in Tallied :
         tally[t].url \in UrlsOf(startArticles) =>
           tally[t].fetch = "none" /\ tally[t].added = 0
    /\ (outcome = "done" /\ failed = 0) =>
         \A k \in 1..Len(listing) :
           IsNewsletter(listing[k]) => Cardinality(RowsFor(PostUrl(listing[k]))) = 1


(* ---------------------------------------------------------------------- *)
(* C12                                                                     *)
(* ---------------------------------------------------------------------- *)
\* C12: while fetch_archive is paging, whatever the sizes of the pages
\* served, the offset is the number of entries retrieved so far and these
\* are the first entries of the listing; what it returns is the sequence of
\* the newsletter-type entries of the whole listing, in listing order, none
\* left out and none twice.
C12_ArchiveIsListingInOrder ==
  /\ pc = "archive" =>
       /\ offset = Len(all_posts)
       /\ offset <= Len(listing)
       /\ \A k \in 1..Len(all_posts) : all_posts[k] = listing[k]
  /\ ArchiveReturned =>
       posts = SelectSeq(listing, LAMBDA p : p.type = "newsletter")

C12_Witness ==
  /\ ArchiveReturned
  /\ Len(listing) = 2
  /\ Len(all_posts) = 2
  /\ Len(posts) = 1
  /\ posts[1] = listing[2]


(* ---------------------------------------------------------------------- *)
(* C13                                                                     *)
(* ---------------------------------------------------------------------- *)
\* The number of maximal runs of non-whitespace characters of a text
Tokens(t) ==
  Cardinality({k \in 1..Len(t) :
                 t[k] \notin Whitespace /\ (k = 1 \/ t[k - 1] \in Whitespace)})

\* A text is normalized: no whitespace at either end, no two spaces and no
\* three newlines in a row
Normalized(t) ==
  /\ t # <<>> => t[1] \notin Whitespace /\ t[Len(t)] \notin Whitespace
  /\ \A k \in 1..Len(t) - 1 : ~(t[k] = " " /\ t[k + 1] = " ")
  /\ \A k \in 1..Len(t) - 2 : ~(t[k] = "\n" /\ t[k + 1] = "\n" /\ t[k + 2] = "\n")

\* C13: every stored Article holds a normalized text; when that text is not
\* empty its word_count is the number of whitespace-separated tokens of the
\* text, whatever the word count of the listing entry says, and when the text
\* is empty its word_count is the listing's word count, or 0 if the listing
\* gives none.
C13_WordCountFromText ==
  \A r \in 1..Len(articles) :
    \E k \in 1..Len(listing) :
      /\ PostUrl(listing[k]) = articles[r].url
      /\ Normalized(articles[r].content_text)
      /\ IF articles[r].content_text # <<>>
         THEN articles[r].word_count = Tokens(articles[r].content_text)
         ELSE articles[r].word_count =
                (IF listing[k].wordcount = NoHint THEN 0 ELSE listing[k].wordcount)

C13_Witness ==
  /\ Len(articles) = 1
  /\ Len(listing[1].html) = 3
  /\ listing[1].wordcount = 9
  /\ articles[1].content_text = <<"w", "\n", "\n", "w", "w">>
  /\ articles[1].word_count = 2


(* ---------------------------------------------------------------------- *)
(* C14                                                                     *)
(* ---------------------------------------------------------------------- *)
\* C14: in every state of the store, also between two steps of a run, the
\* ids of the Article rows are the rowids of the index entries, there is one
\* entry per row, and each entry holds the title, the subtitle and the
\* normalized text of its row.
C14_IndexMatchesArticles ==
  /\ {articles[k].id : k \in 1..Len(articles)} = {e.rowid : e \in articles_fts}
  /\ Cardinality(articles_fts) = Len(articles)
  /\ \A e \in articles_fts :
       \E k \in 1..Len(articles) :
         /\ articles[k].id = e.rowid
         /\ articles[k].title = e.title
         /\ articles[k].subtitle = e.subtitle
         /\ articles[k].content_text = e.content_text

C14_Witness ==
  /\ pc = "loop"
  /\ i = 2
  /\ Len(posts) = 2
  /\ Len(articles) = 1
  /\ \E e \in articles_fts : e.rowid = 1 /\ e.content_text # <<>>


(* ---------------------------------------------------------------------- *)
(* C15                                                                     *)
(* ---------------------------------------------------------------------- *)
\* The result is a ranking of the stored rows by a column: the limit or all
\* rows, each row once, in non-increasing order of the column, and no row
\* left out is larger than a row returned.
RankedBy(res, metric, lim) ==
  /\ Len(res) = Min(lim, Len(articles))
  /\ \A k \in 1..Len(res) :
       \E r \in 1..Len(articles) :
         /\ articles[r].id = res[k].id
         /\ articles[r].url = res[k].url
         /\ MetricOf(articles[r], metric) = MetricOf(res[k], metric)
  /\ \A k, j \in 1..Len(res) : k # j => res[k].id # res[j].id
  /\ \A k \in 1..Len(res) - 1 : MetricOf(res[k], metric) >= MetricOf(res[k + 1], metric)
  /\ \A r \in 1..Len(articles) :
       (\A k \in 1..Len(res) : res[k].id # articles[r].id) =>
         \A k \in 1..Len(res) : MetricOf(res[k], metric) >= MetricOf(articles[r], metric)

\* C15: get_top_articles called with reaction_count, comment_count or
\* word_count returns the ranking by that column; called with any other
\* metric it returns the ranking by reaction_count, the same rows in the same
\* order as the call with reaction_count returns.
C15_TopArticlesFallback ==
  q.op = "get_top_articles" =>
    IF q.metric \in {"reaction_count", "comment_count", "word_count"}
    THEN RankedBy(q.result, q.metric, q.limit)
    ELSE /\ RankedBy(q.result, "reaction_count", q.limit)
         /\ q.result = get_top_articles(articles, "reaction_count", q.limit)

C15_Witness ==
  /\ q.op = "get_top_articles"
  /\ q.metric = "published_date"
  /\ Len(q.result) = 2
  /\ q.result[1].id = 2
  /\ q.result[1].reaction_count > q.result[2].reaction_count
  /\ q.result[1].word_count < q.result[2].word_count

(* ---------------------------------------------------------------------- *)
(* C16                                                                     *)
(* ---------------------------------------------------------------------- *)
\* C16: get_articles_batch returns at most five rows, each a stored Article
\* whose id is among the first five ids of the list, and each such Article
\* once; an id at the sixth place or later adds nothing, also when an Article
\* with that id is stored.
C16_BatchCappedAtFive ==
  q.op = "get_articles_batch" =>
    LET firstFive == {q.ids[j] : j \in {k \in 1..Len(q.ids) : k <= 5}}
    IN /\ Len(q.result) <= 5
       /\ \A k \in 1..Len(q.result) :
            /\ q.result[k].id \in firstFive
            /\ \E r \in 1..Len(articles) : articles[r] = q.result[k]
       /\ \A r \in 1..Len(articles) :
            articles[r].id \in firstFive =>
              Cardinality({k \in 1..Len(q.result) : q.result[k] = articles[r]}) = 1

C16_Witness ==
  /\ q.op = "get_articles_batch"
  /\ Len(q.ids) = 6
  /\ Len(articles) = 6
  /\ \E r \in 1..Len(articles) : articles[r].id = q.ids[6]
  /\ Len(q.result) = 5
  /\ \A k \in 1..Len(q.result) : q.result[k].id # q.ids[6]


(* ---------------------------------------------------------------------- *)
(* C17                                                                     *)
(* ---------------------------------------------------------------------- *)
Fetched(t) == tally[t].fetch \in {"ok", "fail"}

\* C17: the loop sleeps once after every content fetch request, whether the
\* request succeeded or failed, so that between two consecutive content
\* fetch requests of a run there is at least one sleep.
C17_DelayAfterEveryFetch ==
  /\ \A t \in Tallied : Fetched(t) => tally[t].slept = 1
  /\ \A t, u \in Tallied :
       (t < u /\ Fetched(t) /\ Fetched(u)) =>
         \E v \in t..(u - 1) : tally[v].slept >= 1


(* ---------------------------------------------------------------------- *)
(* C18                                                                     *)
(* ---------------------------------------------------------------------- *)
\* C18: every step of every run, full or incremental, whether the run goes
\* on to finish, to fail or to be interrupted, leaves the rows already stored
\* in place and unchanged, can only add rows behind them, and never leaves
\* two rows with the same url.
C18_ArticlesOnlyGrow ==
  [][ /\ IsPrefix(articles, articles')
      /\ Cardinality(UrlsOf(articles')) = Len(articles') ]_vars

C18_Witness ==
  /\ runNo >= 2
  /\ full
  /\ startArticles # <<>>
  /\ Len(articles) > Len(startArticles)
  /\ IsPrefix(startArticles, articles)
  /\ \E t \in Tallied : tally[t].stored /\ tally[t].fetch = "ok" /\ tally[t].added = 0


(* ---------------------------------------------------------------------- *)
(* C19                                                                     *)
(* ---------------------------------------------------------------------- *)
OnePublication ==
  /\ Cardinality(newsletter) <= 1
  /\ \A r \in newsletter : r.id = 1

\* What a step may do to the Publication row
PublicationStep ==
  /\ newsletter # {} => newsletter' # {}
  /\ (newsletter = {} /\ newsletter' # {}) =>
       (pc = "fetched" /\ posts # <<>> /\ pc' = "loop")
  /\ (pc = "fetched" /\ pc' = "loop") =>
       \A r \in newsletter' :
         /\ r.last_fetched = clock'
         /\ r.url = base_url
         /\ \A o \in newsletter : o.last_fetched < r.last_fetched

\* C19 as stated: there is never more than the row with id 1, and the first
\* run, once it has ended without error, has created it.
C19_AsStated ==
  /\ OnePublication
  /\ (runNo = 1 /\ pc = "exited" /\ exitCode = 0) => newsletter # {}

\* C19: in every state there is at most one Publication row and its id is
\* 1; the row appears at the upsert_newsletter of the first run whose archive
\* fetch returned a newsletter-type entry and is there whenever a run is in
\* its loop; an upsert_newsletter that finds the row leaves one row with the
\* fields of the call; no step removes the row.
C19_SinglePublicationRow ==
  /\ [](OnePublication /\ (pc = "loop" => newsletter # {}))
  /\ [][PublicationStep]_vars

C19_Witness ==
  /\ runNo >= 2
  /\ pc = "loop"
  /\ i = 1
  /\ Cardinality(startNewsletter) = 1
  /\ Cardinality(newsletter) = 1
  /\ newsletter # startNewsletter


(* ---------------------------------------------------------------------- *)
(* C20                                                                     *)
(* ---------------------------------------------------------------------- *)
NonEmpty(v) == v # NULL /\ v # ""

\* The first non-empty value of a sequence, NULL when there is none
FirstNonEmpty(vals) ==
  IF \E k \in 1..Len(vals) : NonEmpty(vals[k])
  THEN vals[CHOOSE k \in 1..Len(vals) :
              NonEmpty(vals[k]) /\ \A j \in 1..(k - 1) : ~NonEmpty(vals[j])]
  ELSE NULL

\* The byline names of the entries in scan order
RECURSIVE BylineNames(_)
BylineNames(ps) ==
  IF ps = <<>> THEN <<>> ELSE Head(ps).bylines \o BylineNames(Tail(ps))

\* C20: the author returned is the first non-empty byline name met when the
\* entries are scanned in order, the name is the first non-empty publication
\* name and the description the first non-empty hero text; a field is unset
\* only when no entry has a non-empty value for it.
C20_FirstNonEmptyValues ==
  q.op = "extract_newsletter_metadata" =>
    LET names == [k \in 1..Len(q.posts) |-> q.posts[k].pub_name]
        heros == [k \in 1..Len(q.posts) |-> q.posts[k].hero_text]
        authors == BylineNames(q.posts)
    IN /\ FirstNonEmpty(authors) # NULL => q.result.author = FirstNonEmpty(authors)
       /\ FirstNonEmpty(names) # NULL => q.result.name = FirstNonEmpty(names)
       /\ FirstNonEmpty(heros) # NULL => q.result.description = FirstNonEmpty(heros)


(* ---------------------------------------------------------------------- *)
(* C21                                                                     *)
(* ---------------------------------------------------------------------- *)
\* C21: when a run has printed its summary, saved + skipped + failed is the
\* number of newsletter-type entries of the listing, every one of these
\* entries added one to exactly one of the three counters, and saved is the
\* number of rows the run appended to the articles table, also when two
\* entries of the listing have the same url.
C21_CountersAccountForEntries ==
  (pc = "exited" /\ outcome = "done") =>
    /\ saved + skipped + failed = Len(posts)
    /\ Len(posts) = Cardinality({k \in 1..Len(listing) : listing[k].type = "newsletter"})
    /\ Len(tally) = Len(posts)
    /\ \A t \in Tallied :
         /\ tally[t].idx = t
         /\ tally[t].saved \in {0, 1}
         /\ tally[t].skipped \in {0, 1}
         /\ tally[t].failed \in {0, 1}
         /\ tally[t].saved + tally[t].skipped + tally[t].failed = 1
    /\ IsPrefix(startArticles, articles)
    /\ saved = Len(articles) - Len(startArticles)

C21_Witness ==
  /\ pc = "exited"
  /\ outcome = "done"
  /\ Len(posts) = 2
  /\ PostUrl(posts[1]) = PostUrl(posts[2])
  /\ saved = 1
  /\ skipped = 1
  /\ failed = 0
  /\ Len(articles) = Len(startArticles) + 1


(* ---------------------------------------------------------------------- *)
(* C22                                                                     *)
(* ---------------------------------------------------------------------- *)
\* C22: in every state of the store reached by runs that started from the
\* empty store, finished, failed or interrupted, a stored Article row comes
\* with the Publication row; while the archive is being fetched a run has
\* written nothing, and a run that has added an Article row has upserted the
\* Publication row before, at its own time.
C22_ArticlesImplyPublication ==
  /\ articles # <<>> => \E r \in newsletter : r.id = 1
  /\ pc = "archive" => articles = startArticles /\ newsletter = startNewsletter
  /\ Len(articles) > Len(startArticles) =>
       \E r \in newsletter : r.id = 1 /\ r.last_fetched >= Now(runNo, 1)

C22_Witness ==
  /\ outcome = "crashed"
  /\ runNo = 1
  /\ Len(articles) = 1
  /\ \E r \in newsletter : r.id = 1 /\ r.last_fetched = Now(1, 1)

====
